---- MODULE Spec2Model ----
(***************************************************************************)
(* Model of awr/utils.py: AWRClient.get_projects and                       *)
(* AWRClient.get_project_details, the response normalisation and error     *)
(* classification layer over the provider's REST API.                      *)
(*                                                                         *)
(* Python strings are sequences of one-character strings, so that str(),   *)
(* f-string formatting, lower(), startswith() and urllib.parse.quote() are *)
(* computed character by character.  JSON values (what response.json()     *)
(* returns) are tagged records; a dict is the sequence of its <<key,       *)
(* value>> pairs in insertion order, which is the order dict.keys() and    *)
(* dict.items() iterate in.                                                *)
(***************************************************************************)
EXTENDS Integers, Sequences, FiniteSets, TLC

VARIABLES pc, op, project_id, listResp, detailsResp, requests,
          project_name, project_info, result

vars == <<pc, op, project_id, listResp, detailsResp, requests,
          project_name, project_info, result>>

\* Longest project list the provider returns in the model.
MaxProjects == 2

\* The status the code accepts (response.status_code == 200).
HTTP_OK == 200

-----------------------------------------------------------------------------
(* JSON values as Python sees them after response.json().                  *)

JNull == [t |-> "null"]
JInt(n) == [t |-> "int", i |-> n]
JStr(s) == [t |-> "str", s |-> s]
JList(l) == [t |-> "list", l |-> l]
JObj(o) == [t |-> "obj", o |-> o]

IsNull(v) == v.t = "null"
IsInt(v) == v.t = "int"
IsStr(v) == v.t = "str"
IsList(v) == v.t = "list"
IsObj(v) == v.t = "obj"

\* type(v).__name__, as it appears in CPython's TypeError/AttributeError text.
TypeName(v) ==
    CASE IsNull(v) -> <<"N","o","n","e","T","y","p","e">>
      [] IsInt(v) -> <<"i","n","t">>
      [] IsStr(v) -> <<"s","t","r">>
      [] IsList(v) -> <<"l","i","s","t">>
      [] IsObj(v) -> <<"d","i","c","t">>

-----------------------------------------------------------------------------
(* String literals of the source.                                          *)

s_projects == <<"p","r","o","j","e","c","t","s">>
s_project == <<"p","r","o","j","e","c","t">>
s_response_code == <<"r","e","s","p","o","n","s","e","_","c","o","d","e">>
s_message == <<"m","e","s","s","a","g","e">>
s_error == <<"e","r","r","o","r">>
s_id == <<"i","d">>
s_name == <<"n","a","m","e">>
s_details == <<"d","e","t","a","i","l","s">>
s_None == <<"N","o","n","e">>

\* 'Unknown API error'
s_unknown_api_error ==
    <<"U","n","k","n","o","w","n"," ","A","P","I"," ","e","r","r","o","r">>
\* ' (Code: '
s_code_open == <<" ","(","C","o","d","e",":"," ">>
\* "Could not parse JSON from API response: "
s_parse_list ==
    <<"C","o","u","l","d"," ","n","o","t"," ","p","a","r","s","e"," ",
      "J","S","O","N"," ","f","r","o","m"," ","A","P","I"," ",
      "r","e","s","p","o","n","s","e",":"," ">>
\* "API returned status code "
s_status_list ==
    <<"A","P","I"," ","r","e","t","u","r","n","e","d"," ",
      "s","t","a","t","u","s"," ","c","o","d","e"," ">>
\* "Exception during API request: "
s_exception_list ==
    <<"E","x","c","e","p","t","i","o","n"," ","d","u","r","i","n","g"," ",
      "A","P","I"," ","r","e","q","u","e","s","t",":"," ">>
\* "Failed to get project list: "
s_failed_list ==
    <<"F","a","i","l","e","d"," ","t","o"," ","g","e","t"," ",
      "p","r","o","j","e","c","t"," ","l","i","s","t",":"," ">>
\* "Project with ID "
s_project_with_id ==
    <<"P","r","o","j","e","c","t"," ","w","i","t","h"," ","I","D"," ">>
\* " not found"
s_not_found == <<" ","n","o","t"," ","f","o","u","n","d">>
\* "Failed to get project details: "
s_failed_details ==
    <<"F","a","i","l","e","d"," ","t","o"," ","g","e","t"," ",
      "p","r","o","j","e","c","t"," ","d","e","t","a","i","l","s",":"," ">>
\* "The project you specified does not exist"
s_project_not_exist ==
    <<"T","h","e"," ","p","r","o","j","e","c","t"," ","y","o","u"," ",
      "s","p","e","c","i","f","i","e","d"," ","d","o","e","s"," ",
      "n","o","t"," ","e","x","i","s","t">>
\* "The API token is invalid"
s_token_invalid ==
    <<"T","h","e"," ","A","P","I"," ","t","o","k","e","n"," ",
      "i","s"," ","i","n","v","a","l","i","d">>
\* "Could not parse JSON from project details response: "
s_parse_details ==
    <<"C","o","u","l","d"," ","n","o","t"," ","p","a","r","s","e"," ",
      "J","S","O","N"," ","f","r","o","m"," ","p","r","o","j","e","c","t"," ",
      "d","e","t","a","i","l","s"," ","r","e","s","p","o","n","s","e",":"," ">>

-----------------------------------------------------------------------------
(* Python string operations.                                               *)

Digits == <<"0","1","2","3","4","5","6","7","8","9">>
UpperCase == <<"A","B","C","D","E","F","G","H","I","J","K","L","M",
               "N","O","P","Q","R","S","T","U","V","W","X","Y","Z">>
LowerCase == <<"a","b","c","d","e","f","g","h","i","j","k","l","m",
               "n","o","p","q","r","s","t","u","v","w","x","y","z">>

InSeq(c, s) == \E i \in 1..Len(s) : s[i] = c

RECURSIVE NatToStr(_)
NatToStr(n) ==
    IF n < 10 THEN <<Digits[n + 1]>>
    ELSE NatToStr(n \div 10) \o <<Digits[(n % 10) + 1]>>

\* str(n) for an int.
IntToStr(n) == IF n < 0 THEN <<"-">> \o NatToStr(-n) ELSE NatToStr(n)

\* c.lower() for one character.
LowerChar(c) ==
    IF InSeq(c, UpperCase)
    THEN LowerCase[CHOOSE i \in 1..Len(UpperCase) : UpperCase[i] = c]
    ELSE c

\* s.lower()
Lower(s) == [i \in 1..Len(s) |-> LowerChar(s[i])]

\* s.startswith(p)
StartsWith(s, p) == Len(s) >= Len(p) /\ SubSeq(s, 1, Len(p)) = p

\* sub in s, for two strings.
Contains(s, sub) ==
    \E i \in 0..(Len(s) - Len(sub)) : SubSeq(s, i + 1, i + Len(sub)) = sub

RECURSIVE Join(_, _)
\* sep.join(parts)
Join(parts, sep) ==
    IF Len(parts) = 0 THEN <<>>
    ELSE IF Len(parts) = 1 THEN parts[1]
    ELSE parts[1] \o sep \o Join(Tail(parts), sep)

RECURSIVE PyRepr(_)
\* repr(v): strings quoted with ', containers with ", " and ": " separators.
\* The model's strings hold no quote, backslash or control character, so
\* repr adds no escapes.
PyRepr(v) ==
    CASE IsNull(v) -> s_None
      [] IsInt(v) -> IntToStr(v.i)
      [] IsStr(v) -> <<"'">> \o v.s \o <<"'">>
      [] IsList(v) ->
            <<"[">> \o Join([i \in 1..Len(v.l) |-> PyRepr(v.l[i])], <<",", " ">>)
                    \o <<"]">>
      [] IsObj(v) ->
            <<"{">> \o Join([i \in 1..Len(v.o) |->
                                <<"'">> \o v.o[i][1] \o <<"'", ":", " ">>
                                        \o PyRepr(v.o[i][2])],
                             <<",", " ">>)
                    \o <<"}">>

\* str(v), which is also how an f-string formats v.
PyStr(v) == IF IsStr(v) THEN v.s ELSE PyRepr(v)

\* bool(v)
Truthy(v) ==
    CASE IsNull(v) -> FALSE
      [] IsInt(v) -> v.i # 0
      [] IsStr(v) -> Len(v.s) > 0
      [] IsList(v) -> Len(v.l) > 0
      [] IsObj(v) -> Len(v.o) > 0

\* The characters urllib.parse.quote() leaves alone (safe='/').
QuoteSafe(c) ==
    \/ InSeq(c, UpperCase) \/ InSeq(c, LowerCase) \/ InSeq(c, Digits)
    \/ c \in {"_", ".", "-", "~", "/"}

\* %XX for the reserved ASCII characters of the model's alphabet.
PercentCode(c) ==
    CASE c = " " -> <<"%","2","0">>
      [] c = "&" -> <<"%","2","6">>
      [] c = "=" -> <<"%","3","D">>
      [] c = "?" -> <<"%","3","F">>
      [] c = "#" -> <<"%","2","3">>

RECURSIVE Quote(_)
\* urllib.parse.quote(s) for a str.
Quote(s) ==
    IF Len(s) = 0 THEN <<>>
    ELSE (IF QuoteSafe(Head(s)) THEN <<Head(s)>> ELSE PercentCode(Head(s)))
         \o Quote(Tail(s))

-----------------------------------------------------------------------------
(* dict operations.                                                        *)

\* key in d
HasKey(d, k) == \E i \in 1..Len(d.o) : d.o[i][1] = k

\* d[key], for a key that is present
DictGet(d, k) == d.o[CHOOSE i \in 1..Len(d.o) : d.o[i][1] = k][2]

\* d.get(key, default)
DictGetDefault(d, k, default) == IF HasKey(d, k) THEN DictGet(d, k) ELSE default

\* d[key] = value: in place when the key exists, appended otherwise.
DictSet(d, k, v) ==
    IF HasKey(d, k)
    THEN JObj([i \in 1..Len(d.o) |-> IF d.o[i][1] = k THEN <<k, v>> ELSE d.o[i]])
    ELSE JObj(Append(d.o, <<k, v>>))

-----------------------------------------------------------------------------
(* What a requests.get() call yields: a raised exception with its text, or *)
(* a response with a status code whose body either parses (json) or makes  *)
(* response.json() raise a ValueError with text msg.                       *)

NetError(msg) ==
    [exc |-> TRUE, msg |-> msg, status |-> 0, valid |-> FALSE, json |-> JNull]
Http(status, json) ==
    [exc |-> FALSE, msg |-> <<>>, status |-> status, valid |-> TRUE, json |-> json]
HttpInvalid(status, msg) ==
    [exc |-> FALSE, msg |-> msg, status |-> status, valid |-> FALSE, json |-> JNull]
NoResp ==
    [exc |-> FALSE, msg |-> <<>>, status |-> 0, valid |-> FALSE, json |-> JNull]

(* How a block of Python ends: it returns a value, raises an exception, or  *)
(* (step 1 of get_project_details) goes on to the details request.         *)

Return(v) ==
    [k |-> "return", v |-> v, etype |-> "", emsg |-> <<>>,
     name |-> JNull, info |-> JNull]
Raise(etype, emsg) ==
    [k |-> "raise", v |-> JNull, etype |-> etype, emsg |-> emsg,
     name |-> JNull, info |-> JNull]
Continue(name, info) ==
    [k |-> "continue", v |-> JNull, etype |-> "", emsg |-> <<>>,
     name |-> name, info |-> info]
NoResult ==
    [k |-> "none", v |-> JNull, etype |-> "", emsg |-> <<>>,
     name |-> JNull, info |-> JNull]

-----------------------------------------------------------------------------
(* The texts of the exceptions CPython raises in these handlers.           *)

\* "argument of type 'T' is not iterable": `key in v` for an int or None.
MsgNotContainer(v) ==
    <<"a","r","g","u","m","e","n","t"," ","o","f"," ","t","y","p","e"," ","'">>
    \o TypeName(v)
    \o <<"'"," ","i","s"," ","n","o","t"," ","i","t","e","r","a","b","l","e">>

\* v['key'] for a list or a str.
MsgIndex(v) ==
    IF IsList(v)
    THEN <<"l","i","s","t"," ","i","n","d","i","c","e","s"," ","m","u","s","t"," ",
           "b","e"," ","i","n","t","e","g","e","r","s"," ","o","r"," ",
           "s","l","i","c","e","s",","," ","n","o","t"," ","s","t","r">>
    ELSE <<"s","t","r","i","n","g"," ","i","n","d","i","c","e","s"," ",
           "m","u","s","t"," ","b","e"," ","i","n","t","e","g","e","r","s",","," ",
           "n","o","t"," ","'","s","t","r","'">>

\* "'T' object has no attribute 'attr'"
MsgNoAttribute(v, attr) ==
    <<"'">> \o TypeName(v)
    \o <<"'"," ","o","b","j","e","c","t"," ","h","a","s"," ","n","o"," ",
         "a","t","t","r","i","b","u","t","e"," ","'">>
    \o attr \o <<"'">>

\* "'T' object is not iterable": a for loop over an int or None.
MsgNotIterable(v) ==
    <<"'">> \o TypeName(v)
    \o <<"'"," ","o","b","j","e","c","t"," ","i","s"," ","n","o","t"," ",
         "i","t","e","r","a","b","l","e">>

\* "quote_from_bytes() expected bytes": urllib.parse.quote() of a non-str.
MsgQuote ==
    <<"q","u","o","t","e","_","f","r","o","m","_","b","y","t","e","s","(",")"," ",
      "e","x","p","e","c","t","e","d"," ","b","y","t","e","s">>

\* `key in v` for a str key, where v is not an int or None: dict membership,
\* list element equality, substring of a str.
PyIn(key, v) ==
    CASE IsObj(v) -> HasKey(v, key)
      [] IsList(v) -> \E i \in 1..Len(v.l) : IsStr(v.l[i]) /\ v.l[i].s = key
      [] IsStr(v) -> Contains(v.s, key)
      [] OTHER -> FALSE

\* x != 0 for a JSON value x: only the int 0 equals 0.
NotZero(x) == ~(IsInt(x) /\ x.i = 0)

\* f"{data.get('message', 'Unknown API error')} (Code: {data.get('response_code')})"
ApiErrorMsg(data) ==
    PyStr(DictGetDefault(data, s_message, JStr(s_unknown_api_error)))
    \o s_code_open \o PyStr(DictGetDefault(data, s_response_code, JNull)) \o <<")">>

-----------------------------------------------------------------------------
(* AWRClient.get_projects                                                  *)

\* {"error": error_msg, "projects": []}
ErrorWithProjects(error_msg) ==
    JObj(<< <<s_error, JStr(error_msg)>>, <<s_projects, JList(<<>>)>> >>)

\* Lines 53-55: add response_code 0 if missing, return data.
WithResponseCode(data) ==
    IF HasKey(data, s_response_code) THEN data
    ELSE DictSet(data, s_response_code, JInt(0))

\* Lines 64-74: the first key that starts with "project" (case-insensitive)
\* gives {"response_code": 0, "projects": data[key]}; otherwise the raw data.
\* data.keys() raises for a list or a str.
ExtractProjects(data) ==
    IF ~IsObj(data) THEN Raise("AttributeError", MsgNoAttribute(data, <<"k","e","y","s">>))
    ELSE IF \E i \in 1..Len(data.o) : StartsWith(Lower(data.o[i][1]), s_project)
    THEN LET i == CHOOSE j \in 1..Len(data.o) :
                    /\ StartsWith(Lower(data.o[j][1]), s_project)
                    /\ \A h \in 1..(j - 1) : ~StartsWith(Lower(data.o[h][1]), s_project)
         IN Return(JObj(<< <<s_response_code, JInt(0)>>,
                           <<s_projects, data.o[i][2]>> >>))
    ELSE Return(data)

\* Lines 58-74: the elif on response_code, then the else.
ClassifyByCode(data) ==
    IF PyIn(s_response_code, data)
    THEN IF ~IsObj(data) THEN Raise("TypeError", MsgIndex(data))
         ELSE IF NotZero(DictGet(data, s_response_code))
         THEN Return(ErrorWithProjects(ApiErrorMsg(data)))
         ELSE ExtractProjects(data)
    ELSE ExtractProjects(data)

\* Lines 50-74: classification of the parsed body.
ClassifyProjects(data) ==
    IF IsInt(data) \/ IsNull(data) THEN Raise("TypeError", MsgNotContainer(data))
    ELSE IF PyIn(s_projects, data)
    THEN IF ~IsObj(data) THEN Raise("TypeError", MsgIndex(data))
         ELSE IF IsList(DictGet(data, s_projects))
         THEN Return(WithResponseCode(data))
         ELSE ClassifyByCode(data)
    ELSE ClassifyByCode(data)

\* Lines 38-84: the body of the outer try.
GetProjectsBody(response) ==
    IF response.exc THEN Raise("RequestException", response.msg)
    ELSE IF response.status = HTTP_OK
    THEN IF ~response.valid
         THEN Return(ErrorWithProjects(s_parse_list \o response.msg))
         ELSE ClassifyProjects(response.json)
    ELSE Return(ErrorWithProjects(s_status_list \o IntToStr(response.status)))

\* Lines 86-89: except Exception.
HandleProjects(r) ==
    IF r.k = "raise" THEN Return(ErrorWithProjects(s_exception_list \o r.emsg))
    ELSE r

get_projects(response) == HandleProjects(GetProjectsBody(response))

-----------------------------------------------------------------------------
(* AWRClient.get_project_details                                           *)

\* {"error": error_msg}
ErrorOnly(error_msg) == JObj(<< <<s_error, JStr(error_msg)>> >>)

\* What a for loop over v visits: the elements of a list, the keys of a
\* dict, the characters of a str.
IterItems(v) ==
    CASE IsList(v) -> v.l
      [] IsObj(v) -> [i \in 1..Len(v.o) |-> JStr(v.o[i][1])]
      [] IsStr(v) -> [i \in 1..Len(v.s) |-> JStr(<<v.s[i]>>)]

\* The comparison without str() on the request: str(project.get('id')) ==
\* project_id, which no integer id satisfies.
IdMatches_NoStr(project, pid) ==
    IsStr(pid) /\ PyStr(DictGetDefault(project, s_id, JNull)) = pid.s

\* Line 118: str(project.get('id')) == str(project_id)
IdMatches(project, pid) ==
    PyStr(DictGetDefault(project, s_id, JNull)) = PyStr(pid)

RECURSIVE ScanProjects(_, _, _)
\* Lines 117-121: the loop from entry i on.  It raises at the first entry
\* that has no .get (not a dict), and stops at the first entry whose id
\* matches.
ScanProjects(items, pid, i) ==
    IF i > Len(items) THEN Continue(JNull, JNull)
    ELSE IF ~IsObj(items[i])
    THEN Raise("AttributeError", MsgNoAttribute(items[i], <<"g","e","t">>))
    ELSE IF IdMatches(items[i], pid)
    THEN Continue(DictGetDefault(items[i], s_name, JNull), items[i])
    ELSE ScanProjects(items, pid, i + 1)

\* Lines 113-121: project_name and project_info after the lookup.
FindProject(projects_data, pid) ==
    IF IsInt(projects_data) \/ IsNull(projects_data)
    THEN Raise("TypeError", MsgNotContainer(projects_data))
    ELSE IF PyIn(s_projects, projects_data)
    THEN IF ~IsObj(projects_data) THEN Raise("TypeError", MsgIndex(projects_data))
         ELSE LET ps == DictGet(projects_data, s_projects)
              IN IF IsInt(ps) \/ IsNull(ps)
                 THEN Raise("TypeError", MsgNotIterable(ps))
                 ELSE ScanProjects(IterItems(ps), pid, 1)
    ELSE Continue(JNull, JNull)

\* The message formatted from project_name (None on a miss) instead of
\* project_id.
NotFoundMsg_Name(pid) == s_project_with_id \o s_None \o s_not_found

\* f"Project with ID {project_id} not found"
NotFoundMsg(pid) == s_project_with_id \o PyStr(pid) \o s_not_found

\* Lines 123-132: the lookup miss, then the URL encoding of the name.
CheckName(found, pid) ==
    IF found.k # "continue" THEN found
    ELSE IF ~Truthy(found.name) THEN Return(ErrorOnly(NotFoundMsg(pid)))
    ELSE IF ~IsStr(found.name) THEN Raise("TypeError", MsgQuote)
    ELSE found

\* Lines 102-132: step 1, up to the details request.
ResolveBody(pid, response) ==
    IF response.exc THEN Raise("RequestException", response.msg)
    ELSE IF response.status # HTTP_OK
    THEN Return(ErrorOnly(s_failed_list \o IntToStr(response.status)))
    ELSE IF ~response.valid THEN Raise("ValueError", response.msg)
    ELSE CheckName(FindProject(response.json, pid), pid)

RECURSIVE MergeInfo(_, _, _)
\* Lines 171-173: for key, value in project_info.items():
\*                    if key not in result: result[key] = value
MergeInfo(res, info, i) ==
    IF i > Len(info.o) THEN res
    ELSE MergeInfo(IF HasKey(res, info.o[i][1]) THEN res
                   ELSE DictSet(res, info.o[i][1], info.o[i][2]),
                   info, i + 1)

\* Lines 164-178: the combined result.
CombineResult(pid, name, info, details_data) ==
    LET base == JObj(<< <<s_id, pid>>, <<s_name, name>> >>)
        merged == IF Truthy(info) THEN MergeInfo(base, info, 1) ELSE base
    IN DictSet(merged, s_details, details_data)

\* The classification without the branch for code 11.
ClassifyDetails_No11(pid, name, info, details_data) ==
    IF IsInt(details_data) \/ IsNull(details_data)
    THEN Raise("TypeError", MsgNotContainer(details_data))
    ELSE IF PyIn(s_response_code, details_data)
    THEN IF ~IsObj(details_data) THEN Raise("TypeError", MsgIndex(details_data))
         ELSE LET code == DictGet(details_data, s_response_code)
              IN IF IsInt(code) /\ code.i = 15
                 THEN Return(ErrorOnly(s_project_not_exist))
                 ELSE IF NotZero(code)
                 THEN Return(ErrorOnly(ApiErrorMsg(details_data)))
                 ELSE Return(CombineResult(pid, name, info, details_data))
    ELSE Return(CombineResult(pid, name, info, details_data))

\* Lines 149-178: classification of the parsed details body.
ClassifyDetails(pid, name, info, details_data) ==
    IF IsInt(details_data) \/ IsNull(details_data)
    THEN Raise("TypeError", MsgNotContainer(details_data))
    ELSE IF PyIn(s_response_code, details_data)
    THEN IF ~IsObj(details_data) THEN Raise("TypeError", MsgIndex(details_data))
         ELSE LET code == DictGet(details_data, s_response_code)
              IN IF IsInt(code) /\ code.i = 15
                 THEN Return(ErrorOnly(s_project_not_exist))
                 ELSE IF IsInt(code) /\ code.i = 11
                 THEN Return(ErrorOnly(s_token_invalid))
                 ELSE IF NotZero(code)
                 THEN Return(ErrorOnly(ApiErrorMsg(details_data)))
                 ELSE Return(CombineResult(pid, name, info, details_data))
    ELSE Return(CombineResult(pid, name, info, details_data))

\* Lines 137-184: step 2, from the details request on.
FetchBody(pid, name, info, response) ==
    IF response.exc THEN Raise("RequestException", response.msg)
    ELSE IF response.status # HTTP_OK
    THEN Return(ErrorOnly(s_failed_details \o IntToStr(response.status)))
    ELSE IF ~response.valid
    THEN Return(ErrorOnly(s_parse_details \o response.msg))
    ELSE ClassifyDetails(pid, name, info, response.json)

\* The handler as `except ValueError`: other exceptions propagate.
HandleDetails_ValueErrorOnly(r) ==
    IF r.k = "raise" /\ r.etype = "ValueError" THEN Return(ErrorOnly(r.emsg)) ELSE r

\* Lines 186-189: except Exception: return {"error": str(e)}
HandleDetails(r) ==
    IF r.k = "raise" THEN Return(ErrorOnly(r.emsg)) ELSE r

\* The whole operation, given the answers to its (at most two) requests.
get_project_details(pid, list_response, details_response) ==
    LET step1 == HandleDetails(ResolveBody(pid, list_response))
    IN IF step1.k = "continue"
       THEN HandleDetails(FetchBody(pid, step1.name, step1.info, details_response))
       ELSE step1

\* The requests, by their query parameters (the token is configuration).
ProjectsRequest == [action |-> "projects", project |-> <<>>]
DetailsRequest(name) == [action |-> "details", project |-> Quote(name.s)]

-----------------------------------------------------------------------------
(* The provider's answers and the callers' arguments the model draws from. *)

t_Acme == <<"A","c","m","e">>
t_B_c == <<"B"," ","c">>
t_bad == <<"b","a","d">>
t_a == <<"a">>
\* Text of a json.JSONDecodeError / of a network exception.
t_parse_error == <<"E","x","p","e","c","t","i","n","g"," ","v","a","l","u","e">>
t_net_error == <<"t","i","m","e","d"," ","o","u","t">>

\* List entries: project records with string and integer ids, with extra
\* summary fields (among them "error" and "details"), without a name, with
\* a name that is not a string, without an id; and an entry that is no record.
R_acme == JObj(<< <<s_id, JStr(<<"4","2">>)>>, <<s_name, JStr(t_Acme)>> >>)
R_x == JObj(<< <<s_id, JInt(42)>>, <<s_name, JStr(<<"X">>)>> >>)
R_full ==
    JObj(<< <<s_id, JStr(<<"7">>)>>, <<s_name, JStr(t_B_c)>>,
            <<s_error, JStr(<<"e">>)>>, <<s_details, JStr(<<"d">>)>>,
            <<<<"u","r","l">>, JStr(<<"u">>)>> >>)
R_noname == JObj(<< <<s_id, JInt(8)>> >>)
R_numname == JObj(<< <<s_id, JInt(9)>>, <<s_name, JInt(5)>> >>)
R_noid == JObj(<< <<s_name, JStr(<<"N">>)>> >>)

Entries == {R_acme, R_x, R_full, R_noname, R_numname, R_noid, JInt(5)}

ProjectLists == UNION {[1..n -> Entries] : n \in 0..MaxProjects}
ShortLists == {l \in ProjectLists : Len(l) <= 1}

\* Bodies of the projects endpoint that are not a plain {"projects": [...]}.
OtherListBodies ==
    { JObj(<<>>),
      JObj(<< <<s_response_code, JInt(11)>>, <<s_message, JStr(t_bad)>> >>),
      JObj(<< <<s_response_code, JInt(11)>> >>),
      JObj(<< <<s_response_code, JStr(<<"0">>)>> >>),
      JObj(<< <<s_response_code, JNull>>,
              <<s_message, JObj(<< <<t_a, JList(<<JInt(1), JStr(<<"b">>)>>)>> >>)>> >>),
      JObj(<< <<s_response_code, JInt(0)>>,
              <<<<"P","r","o","j","e","c","t","_","l","i","s","t">>, JInt(5)>> >>),
      JObj(<< <<s_projects, JStr(<<"n","o","n","e">>)>> >>),
      JObj(<< <<t_a, JInt(1)>>,
              <<<<"P","R","O","J","E","C","T","S">>, JList(<<R_acme>>)>>,
              <<<<"p","r","o","j","e","c","t","X">>, JInt(2)>> >>),
      JObj(<< <<s_response_code, JInt(5)>>,
              <<<<"P","r","o","j","e","c","t","s">>, JList(<<>>)>> >>),
      JObj(<< <<s_message, JStr(<<"m">>)>> >>),
      JObj(<< <<s_projects, JInt(5)>> >>),
      JObj(<< <<s_projects, JNull>> >>),
      JObj(<< <<s_projects, JObj(<<>>)>> >>),
      JObj(<< <<s_projects, JObj(<< <<t_a, JInt(1)>> >>)>>,
              <<s_response_code, JInt(11)>> >>),
      JList(<<>>),
      JList(<<JStr(s_projects)>>),
      JList(<<JStr(s_response_code)>>),
      JStr(s_projects),
      JStr(<<"x">> \o s_response_code),
      JStr(<<"o","k">>),
      JInt(5),
      JNull }

ListBodies ==
    {JObj(<< <<s_projects, JList(l)>> >>) : l \in ProjectLists}
    \cup {JObj(<< <<s_projects, JList(l)>>, <<s_response_code, JInt(c)>>,
                  <<s_message, JStr(t_bad)>> >>) : l \in ShortLists, c \in {0, 11}}
    \cup {JObj(<< <<s_error, JStr(<<"x">>)>>, <<s_projects, JList(l)>> >>) :
            l \in ShortLists}
    \cup OtherListBodies

FailedResponses ==
    {NetError(t_net_error), HttpInvalid(HTTP_OK, t_parse_error),
     HttpInvalid(500, <<>>), HttpInvalid(404, <<>>), Http(201, JObj(<<>>))}

ListResponses == {Http(HTTP_OK, b) : b \in ListBodies} \cup FailedResponses

DetailsBodies ==
    { JObj(<<>>),
      JObj(<< <<<<"w","e","b","s","i","t","e","s">>, JList(<<JStr(<<"w">>)>>)>> >>),
      JObj(<< <<s_response_code, JInt(0)>>,
              <<<<"k","e","y","w","o","r","d","s">>, JList(<<>>)>> >>),
      JObj(<< <<s_response_code, JInt(15)>> >>),
      JObj(<< <<s_response_code, JInt(15)>>, <<s_message, JStr(t_bad)>> >>),
      JObj(<< <<s_response_code, JInt(11)>> >>),
      JObj(<< <<s_response_code, JInt(3)>>, <<s_message, JStr(<<"m">>)>> >>),
      JObj(<< <<s_response_code, JInt(3)>> >>),
      JObj(<< <<s_response_code, JStr(<<"1","5">>)>> >>),
      JObj(<< <<s_response_code, JNull>> >>),
      JObj(<< <<s_error, JStr(<<"x">>)>>, <<s_id, JInt(1)>> >>),
      JList(<<>>),
      JList(<<JStr(s_response_code)>>),
      JStr(<<"o","k">>),
      JStr(s_response_code),
      JInt(5),
      JNull }

DetailsResponses == {Http(HTTP_OK, b) : b \in DetailsBodies} \cup FailedResponses

ProjectIds ==
    {JInt(42), JStr(<<"4","2">>), JInt(7), JStr(<<"7">>), JInt(8), JInt(9),
     JInt(99), JStr(s_None)}

-----------------------------------------------------------------------------
(* The client as a state machine.  A call is one step, except that         *)
(* get_project_details stops between its two requests (pc = "details").    *)

Init ==
    /\ pc = "idle"
    /\ op = "none"
    /\ project_id = JNull
    /\ listResp = NoResp
    /\ detailsResp = NoResp
    /\ requests = <<>>
    /\ project_name = JNull
    /\ project_info = JNull
    /\ result = NoResult

\* client.get_projects()
CallGetProjects ==
    \E response \in ListResponses :
        /\ pc = "idle"
        /\ op' = "get_projects"
        /\ listResp' = response
        /\ requests' = <<ProjectsRequest>>
        /\ result' = get_projects(response)
        /\ pc' = "done"
        /\ UNCHANGED <<project_id, detailsResp, project_name, project_info>>

\* client.get_project_details(project_id), step 1: the projects request and
\* the lookup of the name.
CallGetProjectDetails ==
    \E pid \in ProjectIds, response \in ListResponses :
        LET step1 == HandleDetails(ResolveBody(pid, response))
        IN /\ pc = "idle"
           /\ op' = "get_project_details"
           /\ project_id' = pid
           /\ listResp' = response
           /\ requests' = <<ProjectsRequest>>
           /\ IF step1.k = "continue"
              THEN /\ project_name' = step1.name
                   /\ project_info' = step1.info
                   /\ result' = NoResult
                   /\ pc' = "details"
              ELSE /\ project_name' = JNull
                   /\ project_info' = JNull
                   /\ result' = step1
                   /\ pc' = "done"
           /\ UNCHANGED detailsResp

\* client.get_project_details(project_id), step 2: the details request.
FetchDetails ==
    \E response \in DetailsResponses :
        /\ pc = "details"
        /\ detailsResp' = response
        /\ requests' = Append(requests, DetailsRequest(project_name))
        /\ result' = HandleDetails(FetchBody(project_id, project_name,
                                             project_info, response))
        /\ pc' = "done"
        /\ UNCHANGED <<op, project_id, listResp, project_name, project_info>>

\* The call has returned; the client holds no state between calls.
Finish ==
    /\ pc = "done"
    /\ pc' = "idle"
    /\ op' = "none"
    /\ project_id' = JNull
    /\ listResp' = NoResp
    /\ detailsResp' = NoResp
    /\ requests' = <<>>
    /\ project_name' = JNull
    /\ project_info' = JNull
    /\ result' = NoResult

Next == CallGetProjects \/ CallGetProjectDetails \/ FetchDetails \/ Finish

Spec == Init /\ [][Next]_vars

-----------------------------------------------------------------------------
(* Vocabulary of the properties.                                           *)

\* The envelope carries an `error` field.
HasError(v) == IsObj(v) /\ HasKey(v, s_error)

\* The envelope carries a field other than `error`.
HasDataFields(v) == IsObj(v) /\ \E i \in 1..Len(v.o) : v.o[i][1] # s_error

\* The envelope's error message.
ErrorOf(v) == DictGet(v, s_error)

\* The request was answered with HTTP 200 and a body that parses.
Parsed(response) ==
    ~response.exc /\ response.status = HTTP_OK /\ response.valid

\* ... and the body is a JSON object.
ParsedObject(response) == Parsed(response) /\ IsObj(response.json)

\* ... whose `projects` field is a list.
HasProjectsList(response) ==
    /\ ParsedObject(response)
    /\ HasKey(response.json, s_projects)
    /\ IsList(DictGet(response.json, s_projects))

ProjectsOf(response) == DictGet(response.json, s_projects).l

\* The details endpoint was called in this execution.
DetailsRequested == \E i \in 1..Len(requests) : requests[i].action = "details"

\* Entry i of the fetched list is a record whose id, as a string, is the
\* string form of the requested id.
MatchesAt(i) ==
    /\ IsObj(ProjectsOf(listResp)[i])
    /\ PyStr(DictGetDefault(ProjectsOf(listResp)[i], s_id, JNull)) = PyStr(project_id)

-----------------------------------------------------------------------------
\* C1: every value returned by get_projects and get_project_details has
\* exactly one of {data fields, error field}: never both an `error` field
\* and data fields such as `projects`, and never neither.
C1_ExactlyOneOfDataOrError ==
    pc = "done" => (HasError(result.v) # HasDataFields(result.v))

-----------------------------------------------------------------------------
\* A request failed in transport or in parsing.
TransportOrParseFailure(response) ==
    response.exc \/ response.status # HTTP_OK \/ ~response.valid

\* The project list holds an entry that is not a record, and no entry
\* before it matches the requested id (so the lookup reaches it).
NonRecordReached ==
    /\ HasProjectsList(listResp)
    /\ \E i \in 1..Len(ProjectsOf(listResp)) :
          /\ ~IsObj(ProjectsOf(listResp)[i])
          /\ \A h \in 1..(i - 1) : IsObj(ProjectsOf(listResp)[h]) /\ ~MatchesAt(h)

\* C2: neither operation ever raises: whatever the network calls yield
\* (network exception, non-200 status, unparseable body, JSON body that is
\* not an object, list entries that are not records), the operation returns
\* an envelope, and every failure (a transport or parse failure, or an
\* exception raised while handling the body) is returned as an envelope
\* with an `error` field.
C2_NeverRaises ==
    pc = "done" =>
        /\ result.k = "return"
        /\ IsObj(result.v)
        /\ (op = "get_projects"
              /\ (\/ TransportOrParseFailure(listResp)
                  \/ ~IsObj(listResp.json)
                  \/ GetProjectsBody(listResp).k = "raise")
            => HasError(result.v))
        /\ (op = "get_project_details"
              /\ (\/ TransportOrParseFailure(listResp)
                  \/ ~IsObj(listResp.json)
                  \/ NonRecordReached
                  \/ ResolveBody(project_id, listResp).k = "raise"
                  \/ (DetailsRequested
                        /\ (\/ TransportOrParseFailure(detailsResp)
                            \/ IsInt(detailsResp.json) \/ IsNull(detailsResp.json)
                            \/ FetchBody(project_id, project_name, project_info,
                                         detailsResp).k = "raise")))
            => HasError(result.v))

\* C2's case is reached: the lookup raised on an entry that is no record,
\* and the caller got an error envelope.
C2_Witness ==
    /\ pc = "done"
    /\ op = "get_project_details"
    /\ NonRecordReached
    /\ ResolveBody(project_id, listResp).etype = "AttributeError"
    /\ result.k = "return"
    /\ HasError(result.v)

-----------------------------------------------------------------------------
\* C3: in get_projects, an HTTP 200 JSON object with a nonzero
\* response_code always gives an error envelope whose message is built from
\* the provider's message and the code, whether or not the body also holds
\* a `projects` array or another project-like key.
C3_ErrorCodeHasPriority ==
    (/\ pc = "done"
     /\ op = "get_projects"
     /\ ParsedObject(listResp)
     /\ HasKey(listResp.json, s_response_code)
     /\ IsInt(DictGet(listResp.json, s_response_code))
     /\ DictGet(listResp.json, s_response_code).i # 0)
    => /\ HasError(result.v)
       /\ ErrorOf(result.v) = JStr(ApiErrorMsg(listResp.json))

-----------------------------------------------------------------------------
\* get_projects classifies the response as an error, returning
\* {"error": ..., "projects": []}, for a non-200 status, an unparseable
\* body, or a JSON object with a nonzero response_code.
ListCallFails(response) ==
    LET v == get_projects(response).v
    IN /\ Len(v.o) = 2
       /\ v.o[1][1] = s_error
       /\ v.o[2] = <<s_projects, JList(<<>>)>>
       /\ \/ ~response.exc /\ response.status # HTTP_OK
          \/ ~response.exc /\ ~response.valid
          \/ ParsedObject(response) /\ HasKey(response.json, s_response_code)

\* C4: if the step-1 list call failed in any way get_projects classifies as
\* an error, get_project_details returns an error at once: it reports no
\* lookup miss ("Project with ID ... not found") and does not call the
\* details endpoint.
C4_ListErrorReturnedImmediately ==
    (op = "get_project_details" /\ ListCallFails(listResp))
    => /\ pc = "done"
       /\ ~DetailsRequested
       /\ HasError(result.v)
       /\ ErrorOf(result.v) # JStr(NotFoundMsg(project_id))

-----------------------------------------------------------------------------
\* The list request returned a project list made of records only.
ListOfRecords ==
    /\ HasProjectsList(listResp)
    /\ \A i \in 1..Len(ProjectsOf(listResp)) : IsObj(ProjectsOf(listResp)[i])

\* Some record of the fetched list matches the requested id.
SomeRecordMatches ==
    /\ HasProjectsList(listResp)
    /\ \E i \in 1..Len(ProjectsOf(listResp)) : MatchesAt(i)

\* C5: when the requested id matches no record of the fetched project list,
\* get_project_details returns an error envelope whose message contains the
\* literal requested id, and no request with action=details is issued; a
\* details request is only ever issued (or about to be issued) after a
\* projects request that returned a matching record.
C5_LookupMissNeverCallsDetails ==
    /\ (pc = "done" /\ op = "get_project_details"
          /\ ListOfRecords /\ ~SomeRecordMatches)
       => /\ HasError(result.v)
          /\ IsStr(ErrorOf(result.v))
          /\ Contains(ErrorOf(result.v).s, PyStr(project_id))
          /\ ~DetailsRequested
    /\ (DetailsRequested \/ pc = "details")
       => /\ requests[1].action = "projects"
          /\ \A i \in 1..Len(requests) : requests[i].action = "details" => i = 2
          /\ SomeRecordMatches

\* C5's case is reached: a non-empty list of records, none with the
\* requested id, answered with the lookup-miss error and one request only.
C5_Witness ==
    /\ pc = "done"
    /\ op = "get_project_details"
    /\ ListOfRecords
    /\ Len(ProjectsOf(listResp)) > 0
    /\ ~SomeRecordMatches
    /\ result.v = ErrorOnly(NotFoundMsg(project_id))
    /\ requests = <<ProjectsRequest>>

-----------------------------------------------------------------------------
\* The details request was answered with HTTP 200 and a JSON object.
DetailsObject ==
    /\ pc = "done"
    /\ op = "get_project_details"
    /\ DetailsRequested
    /\ ParsedObject(detailsResp)

\* The details body's response_code is the given value.
DetailsCodeIs(code) ==
    /\ HasKey(detailsResp.json, s_response_code)
    /\ DictGet(detailsResp.json, s_response_code) = code

\* The details body's response_code is 0 or absent.
DetailsCodeZeroOrAbsent ==
    \/ ~HasKey(detailsResp.json, s_response_code)
    \/ DictGet(detailsResp.json, s_response_code) = JInt(0)

\* The details body's response_code is present and not 15, 11 or 0.
DetailsCodeOther ==
    /\ HasKey(detailsResp.json, s_response_code)
    /\ DictGet(detailsResp.json, s_response_code) \notin {JInt(15), JInt(11), JInt(0)}

\* "the project you specified does not exist", "the API token is invalid"
s_project_not_exist_lower == <<"t">> \o Tail(s_project_not_exist)
s_token_invalid_lower == <<"t">> \o Tail(s_token_invalid)

\* C6 as stated: for an HTTP 200 details response with a JSON object body,
\* code 15 gives the message exactly "the project you specified does not
\* exist", code 11 exactly "the API token is invalid", any other nonzero
\* code a message built from the provider message and the code, and code 0
\* or absent a success envelope with no `error` field.
C6_AsStated ==
    DetailsObject =>
        /\ DetailsCodeIs(JInt(15))
           => result.v = ErrorOnly(s_project_not_exist_lower)
        /\ DetailsCodeIs(JInt(11))
           => result.v = ErrorOnly(s_token_invalid_lower)
        /\ DetailsCodeOther
           => result.v = ErrorOnly(ApiErrorMsg(detailsResp.json))
        /\ DetailsCodeZeroOrAbsent => ~HasError(result.v)

\* C6 (amended): code 15 gives the message exactly "The project you
\* specified does not exist", code 11 exactly "The API token is invalid"
\* (both capitalised), any other nonzero code the message
\* "<message or 'Unknown API error'> (Code: <code>)", each as the only field
\* of the envelope; code 0 or absent gives a success envelope holding the
\* body under `details`, whose only possible `error` field is a summary
\* field of that name copied from the matched list record.
C6_DetailsClassification ==
    DetailsObject =>
        /\ DetailsCodeIs(JInt(15))
           => result.v = ErrorOnly(s_project_not_exist)
        /\ DetailsCodeIs(JInt(11))
           => result.v = ErrorOnly(s_token_invalid)
        /\ DetailsCodeOther
           => result.v = ErrorOnly(
                  PyStr(DictGetDefault(detailsResp.json, s_message,
                                       JStr(s_unknown_api_error)))
                  \o s_code_open
                  \o PyStr(DictGet(detailsResp.json, s_response_code)) \o <<")">>)
        /\ DetailsCodeZeroOrAbsent
           => /\ HasKey(result.v, s_details)
              /\ DictGet(result.v, s_details) = detailsResp.json
              /\ HasError(result.v) <=> HasKey(project_info, s_error)
              /\ HasError(result.v) => ErrorOf(result.v) = DictGet(project_info, s_error)

\* C6's cases are reached: an invalid-token answer (code 11) to the details
\* request of a resolved project.
C6_Witness ==
    /\ DetailsObject
    /\ DetailsCodeIs(JInt(11))
    /\ result.v = ErrorOnly(s_token_invalid)

-----------------------------------------------------------------------------
\* The details fetch succeeded: the result holds the body under `details`.
DetailsSucceeded ==
    /\ pc = "done"
    /\ op = "get_project_details"
    /\ DetailsRequested
    /\ HasKey(result.v, s_details)

\* C7: on a successful details fetch the result is the union of the matched
\* list record and the details body: `id` and `name` are those of the
\* matched project (id "42" for the entry {"id": "42", "name": "Acme"},
\* whether the request was 42 or "42"), every other summary field has its
\* list value, and `details` is the raw details body.
C7_ResultIsRecordPlusDetails ==
    (DetailsSucceeded /\ HasKey(project_info, s_id))
    => /\ DictGet(result.v, s_id) = DictGet(project_info, s_id)
       /\ DictGet(result.v, s_name) = DictGet(project_info, s_name)
       /\ \A i \in 1..Len(project_info.o) :
             project_info.o[i][1] # s_details
             => /\ HasKey(result.v, project_info.o[i][1])
                /\ DictGet(result.v, project_info.o[i][1]) = project_info.o[i][2]
       /\ DictGet(result.v, s_details) = detailsResp.json

-----------------------------------------------------------------------------
\* C8: for every HTTP 200 response whose JSON body has a `projects` field
\* that is a list, get_projects returns an envelope whose `projects` field
\* is exactly that list (same records, same order, same content) and that
\* has no `error` field.
C8_ProjectsListUnchanged ==
    (pc = "done" /\ op = "get_projects" /\ HasProjectsList(listResp))
    => /\ HasKey(result.v, s_projects)
       /\ DictGet(result.v, s_projects) = DictGet(listResp.json, s_projects)
       /\ ~HasError(result.v)

-----------------------------------------------------------------------------
\* s is the decimal text of a natural number, as str() would print it.
IsDecimal(s) ==
    /\ Len(s) > 0
    /\ \A i \in 1..Len(s) : InSeq(s[i], Digits)
    /\ Len(s) > 1 => s[1] # "0"

RECURSIVE DecimalValue(_)
\* int(s) for such a text.
DecimalValue(s) ==
    IF Len(s) = 0 THEN 0
    ELSE 10 * DecimalValue(SubSeq(s, 1, Len(s) - 1))
         + (CHOOSE d \in 0..9 : Digits[d + 1] = s[Len(s)])

\* The same id in the other type: 42 for "42", "42" for 42.
OtherForm(pid) ==
    IF IsInt(pid) THEN JStr(IntToStr(pid.i))
    ELSE IF IsStr(pid) /\ IsDecimal(pid.s) THEN JInt(DecimalValue(pid.s))
    ELSE pid

\* C9: the lookup is string-normalised on both sides: requesting an id as an
\* integer or as its string form selects the same list record, the first
\* whose str(id) equals str(project_id), and so gives the same project
\* name and the same outcome of the lookup: the same lookup-miss or error
\* envelope, or the same details request, whose result is then the same
\* apart from the `id` field, which repeats the request as given.
C9_LookupStringNormalised ==
    (op = "get_project_details" /\ OtherForm(project_id) # project_id)
    => LET other == HandleDetails(ResolveBody(OtherForm(project_id), listResp))
       IN /\ pc = "details"
             => /\ other.k = "continue"
                /\ other.name = project_name
                /\ other.info = project_info
          /\ (pc = "done" /\ ~DetailsRequested)
             => /\ other.k = "return"
                /\ other.v = result.v
          /\ (pc = "done" /\ DetailsRequested)
             => /\ other.k = "continue"
                /\ other.name = project_name
                /\ other.info = project_info
                /\ LET r == get_project_details(OtherForm(project_id),
                                                listResp, detailsResp)
                   IN /\ r.k = result.k
                      /\ HasError(r.v) <=> HasError(result.v)
                      /\ HasKey(result.v, s_details)
                         => result.v = DictSet(r.v, s_id, project_id)
                      /\ ~HasKey(result.v, s_details) => result.v = r.v
          /\ (pc = "details" \/ DetailsRequested)
             => \E i \in 1..Len(ProjectsOf(listResp)) :
                   /\ project_info = ProjectsOf(listResp)[i]
                   /\ MatchesAt(i)
                   /\ \A h \in 1..(i - 1) : ~MatchesAt(h)

\* C9's case is reached: 42 requested as an integer resolved to the record
\* {"id": "42", "name": "Acme"} and its details were fetched.
C9_Witness ==
    /\ pc = "done"
    /\ op = "get_project_details"
    /\ project_id = JInt(42)
    /\ project_info = R_acme
    /\ project_name = JStr(t_Acme)
    /\ HasKey(result.v, s_details)

-----------------------------------------------------------------------------
\* The body holds a sequence of project records under `projects` or, if
\* that key is absent, under a top-level key starting with "project"
\* (case-insensitive).
HasProjectSequence(data) ==
    /\ IsObj(data)
    /\ IF HasKey(data, s_projects) THEN IsList(DictGet(data, s_projects))
       ELSE \E i \in 1..Len(data.o) :
               /\ StartsWith(Lower(data.o[i][1]), s_project)
               /\ IsList(data.o[i][2])

\* C10: get_projects returns a normalised success envelope (`projects`
\* together with response_code 0 and no `error`) only when the body holds a
\* sequence of project records under `projects` or a project-like key; a
\* project-like key holding a string, number, object or null is never turned
\* into a success envelope with that value under `projects`.
C10_SuccessOnlyForSequences ==
    (/\ pc = "done"
     /\ op = "get_projects"
     /\ ~HasError(result.v)
     /\ HasKey(result.v, s_projects)
     /\ HasKey(result.v, s_response_code)
     /\ DictGet(result.v, s_response_code) = JInt(0))
    => /\ IsList(DictGet(result.v, s_projects))
       /\ Parsed(listResp)
       /\ HasProjectSequence(listResp.json)

====
